---- MODULE Spec2Model ----
(***************************************************************************)
(* SoC Performance-Power-Thermal simulator (src/src/App.tsx).              *)
(*                                                                         *)
(* The React component App is modelled as a state machine.  Its useState   *)
(* cells and useRef cells are the variables; every event handler, the      *)
(* interval callback and the effects that follow a render are actions.     *)
(*                                                                         *)
(* Numbers.  The program computes in IEEE doubles; the model computes in   *)
(* fixed point with the units below, truncating each product as it is      *)
(* formed.  Math.exp is evaluated by range reduction and a Taylor series.  *)
(*     time            ms           (dt = 0.25 s  -> 250)                  *)
(*     temperature     0.001 degC   (thermalLimit = 42 -> 42000)           *)
(*     frequency       MHz          (2.2 GHz -> 2200)                      *)
(*     voltage         mV           (0.92 V  -> 920)                       *)
(*     power           mW                                                  *)
(*     energy          1e-6 Wh      (batteryWh = 0.75 -> 750000)           *)
(*     work            1e-3 GI      (workloadGI = 1000 -> 1000000)         *)
(*     workloadMix     1/100        (0.9 -> 90, the slider's step)         *)
(*     ceffNF          0.001 nF     (1.2 -> 1200)                          *)
(*                                                                         *)
(* Scheduling.  JavaScript runs each handler and each interval callback to *)
(* completion, and the render and effects that a handler's setState calls  *)
(* cause are taken to finish before the next event is delivered.  The      *)
(* interval callback is split into TickStart, one SubStep per iteration of *)
(* its while loop, and TickEnd; while pc = "tick" no other action is       *)
(* enabled, so the callback stays atomic for every other handler.          *)
(***************************************************************************)
EXTENDS Integers, Sequences, FiniteSets, TLC

-----------------------------------------------------------------------------
(* Fixed model parameters: the object P and the loop's local constants.    *)

Pleak0 == 600
kV == 2
IPCmin == 500
IPCmax == 2000
dt == 250
fMin == 600
fMax == 3500
vMin == 600
vMax == 1100
slewStepSec == 300
Rth == 8
HYST == 2000
OVERHEAT_MARGIN == 5000
BattFloorPct == 20
BattFloorIndex == 3
MinGraceSec == 1000
tickMs == 100
maxSpeed == 50
SeriesCap == 3000
SeriesKeep == 1500
InitIndex == 2
TRefC == 25000
VRefmV == 800

\* P.gamma = 0.04 per degC, kept as the divisor 1/0.04
GammaInv == 25

pstates ==
  << [f |-> 3000, V |-> 1050],
     [f |-> 2600, V |-> 980],
     [f |-> 2200, V |-> 920],
     [f |-> 1800, V |-> 860],
     [f |-> 1400, V |-> 800],
     [f |-> 1000, V |-> 740],
     [f |-> 800,  V |-> 700] >>

NStates == Len(pstates)

\* P.pstates[i] with the program's 0-based index
PState(i) == pstates[i + 1]

-----------------------------------------------------------------------------
(* Arithmetic helpers.                                                     *)

Min(a, b) == IF a <= b THEN a ELSE b
Max(a, b) == IF a >= b THEN a ELSE b

\* const clamp = (x, lo, hi) => Math.max(lo, Math.min(hi, x))
clamp(x, lo, hi) == Max(lo, Min(hi, x))

\* the quotient n / d (d > 0) to the nearest integer, halves up (Math.round)
RoundDiv(n, d) == (2 * n + d) \div (2 * d)

\* Number.prototype.toFixed followed by unary +: x is a fixed-point number
\* with `scale` units per 1; the result has `pow` units per 1 (pow = 10^digits).
ToFixed(x, scale, pow) ==
  IF pow >= scale THEN x * (pow \div scale)
  ELSE IF x >= 0 THEN RoundDiv(x, scale \div pow)
  ELSE -RoundDiv(-x, scale \div pow)

\* e^k in units of 1e-6, k an integer in -3 .. 4
EPowMicro(k) ==
  CASE k = -3 -> 49787
    [] k = -2 -> 135335
    [] k = -1 -> 367879
    [] k = 0  -> 1000000
    [] k = 1  -> 2718282
    [] k = 2  -> 7389056
    [] k = 3  -> 20085537
    [] k = 4  -> 54598150

\* Taylor series of e^(r/1000), 0 <= r < 1000, in units of 1e-6
RECURSIVE ExpSeries(_, _, _)
ExpSeries(r, i, term) ==
  IF i > 9 \/ term = 0 THEN 0
  ELSE term + ExpSeries(r, i + 1, (term * r) \div (1000 * i))

\* Math.exp(x / 1000) in units of 1e-3, for -3000 <= x < 5000
ExpMilli(x) ==
  LET k == x \div 1000
      r == x - 1000 * k
  IN  ((ExpSeries(r, 1, 1000000) \div 1000) * (EPowMicro(k) \div 100)) \div 10000

\* 1 - Math.exp(-h / tau) in units of 1e-6; h and tau in ms, 0 < h <= tau
OneMinusExpNeg(h, tau) ==
  LET x  == (h * 1000000) \div tau
      x2 == (x * x) \div 1000000
      x3 == (x2 * x) \div 1000000
  IN  x - x2 \div 2 + x3 \div 6

-----------------------------------------------------------------------------
(* State.                                                                  *)

VARIABLES
  \* user knobs (useState)
  workloadMix, ceffNF, manualOverride, freqGHz, vdd,
  ambient, thermalLimit, overheatGrace, batteryWh, workloadGI,
  speed, playing, tauSec,
  \* simulation state (useState)
  series, endReason, remainingGI, throttling,
  \* mutable refs of the loop (useRef)
  T_ref, EWh_ref, t_ref, overheatAccum_ref, remainingGI_ref,
  slewCooldown_ref, pIndex_ref, f_ref, V_ref,
  \* the interval callback: position and locals
  pc, vtime, localEnd, localThrottling, newPoints,
  \* bookkeeping of the exploration, not program state
  edits, lastChangeT,
  \* history kept for the properties, not program state: every sample pushed
  \* since the last resetSim, the knobs as they were when the run took its
  \* first sub-step, and t_ref at the start of the current callback
  fullTrace, runKnobs, tickT0

knobs == << workloadMix, ceffNF, manualOverride, freqGHz, vdd,
            ambient, thermalLimit, overheatGrace, batteryWh, workloadGI,
            speed, tauSec >>
simState == << series, endReason, remainingGI, throttling >>
refs == << T_ref, EWh_ref, t_ref, overheatAccum_ref, remainingGI_ref,
           slewCooldown_ref, pIndex_ref, f_ref, V_ref >>
locals == << pc, vtime, localEnd, localThrottling, newPoints >>
history == << fullTrace, runKnobs, tickT0 >>
vars == << knobs, playing, simState, refs, locals, edits, lastChangeT, history >>

\* the knobs a run is configured by, as one record
Config ==
  [ workloadMix |-> workloadMix, ceffNF |-> ceffNF, ambient |-> ambient,
    thermalLimit |-> thermalLimit, overheatGrace |-> overheatGrace,
    batteryWh |-> batteryWh, workloadGI |-> workloadGI, tauSec |-> tauSec ]

\* Bounds of the exploration.
MaxT == 1000
MaxEdits == 1

\* localEnd: EndReason | null
Null == "null"
EndReasons == {"running", "completed", "battery", "overheat", "reset"}

-----------------------------------------------------------------------------
(* Derived from workload (lines 72-73, 106-110).                           *)

alpha(mix) == 500 + (500 * mix) \div 100
ipc(mix) == IPCmin + ((IPCmax - IPCmin) * mix) \div 100

targetPIndex(mix) ==
  LET n == NStates
      idx == RoundDiv((100 - mix) * (n - 1), 100)
  IN  clamp(idx, 0, n - 1)

-----------------------------------------------------------------------------
(* One sub-step of the main loop, block by block.                          *)

LoopGuardInvertedLocalEnd(vt, le, er) ==
  vt > 0 /\ le # Null /\ er = "running"

LoopGuardIgnoresLocalEnd(vt, le, er) ==
  vt > 0 /\ er = "running"

\* while (vtime > 0 && (localEnd ?? endReason) === "running")
LoopGuard(vt, le, er) ==
  vt > 0 /\ (IF le # Null THEN le ELSE er) = "running"

\* Math.max(0, 100 * (1 - EWh / batteryWh)) in units of 0.001 %
BattPct(E, batt) ==
  LET used == IF E <= 20000 THEN (E * 100000) \div batt
              ELSE (E * 1000) \div (batt \div 100)
  IN  Max(0, 100000 - used)

DesiredNoThermal(cur, T, limit, target, E, batt) ==
  IF BattPct(E, batt) < BattFloorPct * 1000 THEN Max(target, BattFloorIndex)
  ELSE target

DesiredNoHysteresis(cur, T, limit, target, E, batt) ==
  LET d1 == IF T >= limit THEN Min(cur + 1, NStates - 1) ELSE target
  IN  IF BattPct(E, batt) < BattFloorPct * 1000 THEN Max(d1, BattFloorIndex) ELSE d1

DesiredNoBatteryFloor(cur, T, limit, target, E, batt) ==
  IF T >= limit THEN Min(cur + 1, NStates - 1)
  ELSE IF T > limit - HYST THEN Max(cur, target)
  ELSE target

DesiredAboveOnly(cur, T, limit, target, E, batt) ==
  LET d1 == IF T > limit THEN Min(cur + 1, NStates - 1)
            ELSE IF T > limit - HYST THEN Max(cur, target)
            ELSE target
  IN  IF BattPct(E, batt) < BattFloorPct * 1000 THEN Max(d1, BattFloorIndex) ELSE d1

\* lines 133-140: the index the governor wants
Desired(cur, T, limit, target, E, batt) ==
  LET d1 == IF T >= limit THEN Min(cur + 1, NStates - 1)
            ELSE IF T > limit - HYST THEN Max(cur, target)
            ELSE target
  IN  IF BattPct(E, batt) < BattFloorPct * 1000 THEN Max(d1, BattFloorIndex) ELSE d1

\* line 136: thermalTriggered
ThermalTriggered(manual, T, limit) == ~manual /\ T >= limit

CooldownTickAlways(manual, cd, h) ==
  IF cd > 0 THEN Max(0, cd - h) ELSE cd

\* lines 129-130: the cooldown runs down only in automatic mode
CooldownTick(manual, cd, h) ==
  IF ~manual /\ cd > 0 THEN Max(0, cd - h) ELSE cd

NextIndexJumps(cur, desired, cd) ==
  IF cd = 0 THEN desired ELSE cur

NextIndexIgnoresCooldown(cur, desired, cd) ==
  IF desired < cur THEN cur - 1
  ELSE IF desired > cur THEN cur + 1
  ELSE cur

\* lines 142-145: slew-limited move, one table position at most
NextIndex(cur, desired, cd) ==
  IF cd = 0
  THEN IF desired < cur THEN cur - 1
       ELSE IF desired > cur THEN cur + 1
       ELSE cur
  ELSE cur

ManualFVSwapped(fq, vd) ==
  [f |-> clamp(vd, fMin, fMax), V |-> clamp(fq, vMin, vMax)]

\* lines 153-154: manual override
ManualFV(fq, vd) ==
  [f |-> clamp(fq, fMin, fMax), V |-> clamp(vd, vMin, vMax)]

\* lines 128-155: the governor; g holds the refs it owns
Governor(manual, g, h, T, limit, target, E, batt, fq, vd) ==
  IF ~manual
  THEN LET cd1 == CooldownTick(manual, g.cd, h)
           cur == g.idx
           des == Desired(cur, T, limit, target, E, batt)
           idx == NextIndex(cur, des, cd1)
       IN  IF idx # cur
           THEN [idx |-> idx, f |-> PState(idx).f, V |-> PState(idx).V,
                 cd |-> slewStepSec]
           ELSE [idx |-> cur, f |-> g.f, V |-> g.V, cd |-> cd1]
  ELSE LET m == ManualFV(fq, vd)
       IN  [idx |-> g.idx, f |-> m.f, V |-> m.V,
            cd |-> CooldownTick(manual, g.cd, h)]

\* line 158: perfGIPS, in 0.001 GIPS
PerfGIPS(mix, f) == Max(0, (ipc(mix) * f) \div 1000)

\* line 163
Pdyn(ceff, V, f, mix) ==
  LET a1 == (ceff * V) \div 1000
      a2 == (a1 * V) \div 1000
      a3 == (a2 * f) \div 1000
  IN  (a3 * alpha(mix)) \div 1000

\* line 164
Pleak(V, T) ==
  (((Pleak0 * ExpMilli(kV * (V - VRefmV))) \div 1000)
      * ExpMilli((T - TRefC) \div GammaInv)) \div 1000

\* line 165
Ptot(ceff, V, f, mix, T) == Pdyn(ceff, V, f, mix) + Pleak(V, T)

WorkStepNoFloor(rem, perf, h) == rem - (perf * h) \div 1000

\* lines 168-169: work done, remaining floored at 0
WorkStep(rem, perf, h) == Max(0, rem - (perf * h) \div 1000)

\* lines 174-177: thermal RC, exact exponential step
ThermalStep(T, P, amb, tauS, h) ==
  LET Cth == Max(1, (tauS * 1000) \div Max(1, Rth))
      tau == Rth * Cth
      Tss == amb + P * Rth
  IN  T + RoundDiv((Tss - T) * OneMinusExpNeg(h, tau), 1000000)

EnergyStepDrain(E, P, h) == E - RoundDiv(P * h, 3600)

\* line 180
EnergyStep(E, P, h) == E + RoundDiv(P * h, 3600)

OverheatStepSlowDecay(acc, T, limit, h) ==
  IF T > limit + OVERHEAT_MARGIN THEN acc + h ELSE Max(0, acc - h)

\* lines 184-186: overheat grace with decay
OverheatStep(acc, T, limit, h) ==
  IF T > limit + OVERHEAT_MARGIN THEN acc + h ELSE Max(0, acc - 2 * h)

\* lines 190-199: the recorded point
MakePoint(t, P, T, perf, E, batt, f, V) ==
  [ t        |-> ToFixed(t, 1000, 100),
    power    |-> ToFixed(P, 1000, 1000),
    temp     |-> ToFixed(T, 1000, 1000),
    perfMIPS |-> ToFixed(perf, 1, 10),
    energyWh |-> ToFixed(E, 1000000, 100000),
    battPct  |-> ToFixed(BattPct(E, batt), 1000, 100),
    f        |-> ToFixed(f, 1000, 100),
    V        |-> ToFixed(V, 1000, 100) ]

\* lines 170, 202, 203: three assignments in program order, the last one wins
LocalEndAfter(le, rem, E, batt, acc, grace) ==
  LET e1 == IF rem <= 0 THEN "completed" ELSE le
      e2 == IF E >= batt THEN "battery" ELSE e1
  IN  IF acc >= Max(MinGraceSec, grace) THEN "overheat" ELSE e2

-----------------------------------------------------------------------------
(* Construction.  The knobs start at the useState defaults or at values    *)
(* the controls were set to before the first Play; the refs are seeded by  *)
(* useRef at construction (T_ref at the default ambient, whatever the      *)
(* Ambient field holds afterwards), and remainingGI follows workloadGI     *)
(* through the effect of lines 102-104.                                    *)

DefaultKnobs ==
  [ workloadMix |-> 90, ceffNF |-> 1200, manualOverride |-> FALSE,
    freqGHz |-> 2200, vdd |-> 900, ambient |-> 25000, thermalLimit |-> 42000,
    overheatGrace |-> 5000, batteryWh |-> 750000, workloadGI |-> 1000000,
    speed |-> 75, tauSec |-> 60 ]

\* a thermal limit below the starting temperature, the shortest grace, 1x
\* speed, and a workload that runs out in the sub-step in which the grace does
HotKnobs ==
  [DefaultKnobs EXCEPT !.thermalLimit = 10000, !.overheatGrace = 1000,
                       !.speed = 1, !.workloadGI = 2400]

\* a workload and a battery that both run out within a few sub-steps
SmallKnobs ==
  [DefaultKnobs EXCEPT !.workloadGI = 1000, !.batteryWh = 300, !.speed = 1]

\* manual override switched on, the frequency slider moved, 3x speed
ManualKnobs ==
  [DefaultKnobs EXCEPT !.manualOverride = TRUE, !.freqGHz = 3150, !.speed = 3]

\* manual override on with the frequency slider moved, at a workload mix whose
\* target is the index the governor starts at, 5x speed
HeldKnobs ==
  [DefaultKnobs EXCEPT !.manualOverride = TRUE, !.freqGHz = 3150,
                       !.workloadMix = 67, !.speed = 5]

InitKnobs == {DefaultKnobs, HotKnobs, SmallKnobs, ManualKnobs, HeldKnobs}

\* what resetSim leaves and construction seeds, but for T_ref: the engine state
\* of a run that has not stepped yet
Fresh(k) ==
  [ refs |-> [ T |-> DefaultKnobs.ambient, E |-> 0, t |-> 0, acc |-> 0,
               rem |-> k.workloadGI, cd |-> 0, idx |-> InitIndex,
               f |-> PState(InitIndex).f, V |-> PState(InitIndex).V ],
    remainingGI |-> k.workloadGI, lastChangeT |-> -1,
    series |-> << >>, endReason |-> "running", throttling |-> FALSE,
    fullTrace |-> << >> ]

\* the state with knobs k and engine state s, between two callbacks
InitAt(k, s, isPlaying) ==
  /\ workloadMix = k.workloadMix
  /\ ceffNF = k.ceffNF
  /\ manualOverride = k.manualOverride
  /\ freqGHz = k.freqGHz
  /\ vdd = k.vdd
  /\ ambient = k.ambient
  /\ thermalLimit = k.thermalLimit
  /\ overheatGrace = k.overheatGrace
  /\ batteryWh = k.batteryWh
  /\ workloadGI = k.workloadGI
  /\ speed = k.speed
  /\ tauSec = k.tauSec
  /\ playing = isPlaying
  /\ series = s.series
  /\ endReason = s.endReason
  /\ remainingGI = s.remainingGI
  /\ throttling = s.throttling
  /\ T_ref = s.refs.T
  /\ EWh_ref = s.refs.E
  /\ t_ref = s.refs.t
  /\ overheatAccum_ref = s.refs.acc
  /\ remainingGI_ref = s.refs.rem
  /\ slewCooldown_ref = s.refs.cd
  /\ pIndex_ref = s.refs.idx
  /\ f_ref = s.refs.f
  /\ V_ref = s.refs.V
  /\ pc = "idle"
  /\ vtime = 0
  /\ localEnd = Null
  /\ localThrottling = FALSE
  /\ newPoints = << >>
  /\ edits = 0
  /\ lastChangeT = s.lastChangeT
  /\ fullTrace = s.fullTrace
  /\ runKnobs = Config
  /\ tickT0 = 0

Init == \E k \in InitKnobs : InitAt(k, Fresh(k), FALSE)

-----------------------------------------------------------------------------
(* resetSim (lines 93-100) and the effect of lines 102-104.                *)

resetSimKeepsGovernor ==
  /\ T_ref' = ambient
  /\ EWh_ref' = 0
  /\ t_ref' = 0
  /\ overheatAccum_ref' = 0
  /\ remainingGI_ref' = workloadGI
  /\ remainingGI' = workloadGI
  /\ series' = << >>
  /\ endReason' = "running"
  /\ throttling' = FALSE
  /\ UNCHANGED << pIndex_ref, f_ref, V_ref, slewCooldown_ref >>
  /\ lastChangeT' = -1
  /\ fullTrace' = << >>
  /\ runKnobs' = Config

resetSim ==
  /\ T_ref' = ambient
  /\ EWh_ref' = 0
  /\ t_ref' = 0
  /\ overheatAccum_ref' = 0
  /\ remainingGI_ref' = workloadGI
  /\ remainingGI' = workloadGI
  /\ series' = << >>
  /\ endReason' = "running"
  /\ throttling' = FALSE
  /\ pIndex_ref' = InitIndex
  /\ f_ref' = PState(InitIndex).f
  /\ V_ref' = PState(InitIndex).V
  /\ slewCooldown_ref' = 0
  /\ lastChangeT' = -1
  /\ fullTrace' = << >>
  /\ runKnobs' = Config

SyncRemainingNever(depsChanged, nowPlaying, wl, rem) == rem

\* useEffect(() => { if (!playing) remaining := workloadGI }, [workloadGI, playing]):
\* the value remainingGI holds after a render in which a dependency changed
SyncRemaining(depsChanged, nowPlaying, wl, rem) ==
  IF depsChanged /\ ~nowPlaying THEN wl ELSE rem

-----------------------------------------------------------------------------
(* The interval callback (lines 117-214).                                  *)

\* line 118: the virtual time one callback advances
Budget(sp) == tickMs * clamp(sp, 1, maxSpeed)

TickStartUpTo(maxT) ==
  /\ pc = "idle"
  /\ playing
  /\ (t_ref < maxT \/ endReason # "running")
  /\ pc' = "tick"
  /\ vtime' = Budget(speed)
  /\ localEnd' = Null
  /\ localThrottling' = throttling
  /\ newPoints' = << >>
  /\ tickT0' = t_ref
  /\ UNCHANGED << knobs, playing, simState, refs, edits, lastChangeT,
                  fullTrace, runKnobs >>

TickStart == TickStartUpTo(MaxT)

\* lines 124-203: one iteration of the while loop.  w holds the callback's
\* locals and the refs, k the knobs the callback closes over
Iteration(w, k) ==
  LET h    == Min(dt, w.vtime)
      r    == w.refs
      g    == Governor(k.manualOverride,
                       [idx |-> r.idx, f |-> r.f, V |-> r.V, cd |-> r.cd],
                       h, r.T, k.thermalLimit, targetPIndex(k.workloadMix),
                       r.E, k.batteryWh, k.freqGHz, k.vdd)
      trig == ThermalTriggered(k.manualOverride, r.T, k.thermalLimit)
      perf == PerfGIPS(k.workloadMix, g.f)
      P    == Ptot(k.ceffNF, g.V, g.f, k.workloadMix, r.T)
      rem  == WorkStep(r.rem, perf, h)
      T    == ThermalStep(r.T, P, k.ambient, k.tauSec, h)
      E    == EnergyStep(r.E, P, h)
      acc  == OverheatStep(r.acc, T, k.thermalLimit, h)
      t    == r.t + h
  IN  [ vtime |-> w.vtime - h,
        refs |-> [ T |-> T, E |-> E, t |-> t, acc |-> acc, rem |-> rem,
                   cd |-> g.cd, idx |-> g.idx, f |-> g.f, V |-> g.V ],
        remainingGI |-> IF rem <= 0 THEN 0 ELSE rem,
        lastChangeT |-> IF g.idx # r.idx THEN r.t ELSE w.lastChangeT,
        newPoints |-> Append(w.newPoints,
                             MakePoint(t, P, T, perf, E, k.batteryWh, g.f, g.V)),
        localThrottling |-> (trig \/ T >= k.thermalLimit),
        localEnd |-> LocalEndAfter(w.localEnd, rem, E, k.batteryWh, acc,
                                   k.overheatGrace) ]

\* the knobs as the callback sees them
Knobs ==
  [ workloadMix |-> workloadMix, ceffNF |-> ceffNF,
    manualOverride |-> manualOverride, freqGHz |-> freqGHz, vdd |-> vdd,
    ambient |-> ambient, thermalLimit |-> thermalLimit,
    overheatGrace |-> overheatGrace, batteryWh |-> batteryWh,
    workloadGI |-> workloadGI, speed |-> speed, tauSec |-> tauSec ]

\* the callback's locals and the refs, as Iteration takes them
Loop ==
  [ vtime |-> vtime, localEnd |-> localEnd,
    localThrottling |-> localThrottling, newPoints |-> newPoints,
    refs |-> [ T |-> T_ref, E |-> EWh_ref, t |-> t_ref,
               acc |-> overheatAccum_ref, rem |-> remainingGI_ref,
               cd |-> slewCooldown_ref, idx |-> pIndex_ref,
               f |-> f_ref, V |-> V_ref ],
    remainingGI |-> remainingGI, lastChangeT |-> lastChangeT ]

SubStep ==
  /\ pc = "tick"
  /\ LoopGuard(vtime, localEnd, endReason)
  /\ LET w == Iteration(Loop, Knobs)
     IN  /\ vtime' = w.vtime
         /\ pIndex_ref' = w.refs.idx
         /\ f_ref' = w.refs.f
         /\ V_ref' = w.refs.V
         /\ slewCooldown_ref' = w.refs.cd
         /\ lastChangeT' = w.lastChangeT
         /\ remainingGI_ref' = w.refs.rem
         /\ remainingGI' = w.remainingGI
         /\ T_ref' = w.refs.T
         /\ EWh_ref' = w.refs.E
         /\ overheatAccum_ref' = w.refs.acc
         /\ t_ref' = w.refs.t
         /\ newPoints' = w.newPoints
         /\ localThrottling' = w.localThrottling
         /\ localEnd' = w.localEnd
  /\ UNCHANGED << knobs, playing, series, endReason, throttling, pc, edits,
                  history >>

SeriesAfterNeverTrims(prev, pts) ==
  IF Len(pts) > 0 THEN prev \o pts ELSE prev

SeriesAfterKeepsOldest(prev, pts) ==
  IF Len(pts) > 0
  THEN LET cap == IF Len(prev) > SeriesCap
                  THEN SubSeq(prev, 1, SeriesKeep)
                  ELSE prev
       IN  cap \o pts
  ELSE prev

\* lines 206-211: setSeries with trim-on-append
SeriesAfter(prev, pts) ==
  IF Len(pts) > 0
  THEN LET cap == IF Len(prev) > SeriesCap
                  THEN SubSeq(prev, Len(prev) - SeriesKeep + 1, Len(prev))
                  ELSE prev
       IN  cap \o pts
  ELSE prev

EndAfterTickAlways(le, er) ==
  IF le # Null THEN le ELSE "running"

\* line 213: if (localEnd && endReason === "running") setEndReason(localEnd)
EndAfterTick(le, er) ==
  IF le # Null /\ er = "running" THEN le ELSE er

TickEnd ==
  /\ pc = "tick"
  /\ ~LoopGuard(vtime, localEnd, endReason)
  /\ series' = SeriesAfter(series, newPoints)
  /\ throttling' = localThrottling
  /\ endReason' = EndAfterTick(localEnd, endReason)
  /\ pc' = "idle"
  /\ vtime' = 0
  /\ localEnd' = Null
  /\ localThrottling' = FALSE
  /\ newPoints' = << >>
  /\ fullTrace' = fullTrace \o newPoints
  /\ tickT0' = 0
  /\ UNCHANGED << knobs, playing, remainingGI, refs, edits, lastChangeT,
                  runKnobs >>

-----------------------------------------------------------------------------
(* Play / Pause / Reset (lines 323-325).                                   *)

Play ==
  /\ pc = "idle"
  /\ ~playing
  /\ playing' = TRUE
  /\ IF endReason # "running"
     THEN resetSim
     ELSE UNCHANGED << simState, refs, lastChangeT, fullTrace, runKnobs >>
  /\ UNCHANGED << knobs, locals, edits, tickT0 >>

Pause ==
  /\ pc = "idle"
  /\ playing
  /\ playing' = FALSE
  /\ remainingGI_ref' = SyncRemaining(TRUE, FALSE, workloadGI, remainingGI_ref)
  /\ remainingGI' = SyncRemaining(TRUE, FALSE, workloadGI, remainingGI)
  /\ UNCHANGED << knobs, series, endReason, throttling, T_ref, EWh_ref, t_ref,
                  overheatAccum_ref, slewCooldown_ref, pIndex_ref, f_ref, V_ref,
                  locals, edits, lastChangeT, history >>

Reset ==
  /\ pc = "idle"
  /\ playing' = FALSE
  /\ resetSim
  /\ UNCHANGED << knobs, locals, edits, tickT0 >>

-----------------------------------------------------------------------------
(* The controls (lines 265-329).  Each handler stores the value typed or   *)
(* dragged; an edit that stores the value already held causes no render.   *)
(* The values offered are a few per control.                               *)

MixInputs == {0}
CeffInputs == {50}
FreqInputs == {650}
VddInputs == {1100}
AmbientInputs == {40000}
ThermalLimitInputs == {25000, 42000}
GraceInputs == {500, 2000}
BatteryInputs == {100}
WorkloadInputs == {1000}
SpeedInputs == {1, 3}
TauInputs == {20}

CanEdit == pc = "idle" /\ edits < MaxEdits

\* what every handler leaves alone; a run that has not stepped yet takes the
\* edited knobs as the ones it starts with
Edited ==
  /\ edits' = edits + 1
  /\ runKnobs' = IF t_ref = 0 THEN Config' ELSE runKnobs
  /\ UNCHANGED << playing, locals, lastChangeT, fullTrace, tickT0 >>

SetWorkloadMix(n) ==
  /\ CanEdit /\ n # workloadMix
  /\ workloadMix' = n
  /\ UNCHANGED << ceffNF, manualOverride, freqGHz, vdd, ambient, thermalLimit,
                  overheatGrace, batteryWh, workloadGI, speed, tauSec,
                  simState, refs >>
  /\ Edited

\* setCeffNF(Number.isFinite(n) ? Math.max(0.1, n) : 1.2)
SetCeffNF(n) ==
  /\ CanEdit /\ Max(100, n) # ceffNF
  /\ ceffNF' = Max(100, n)
  /\ UNCHANGED << workloadMix, manualOverride, freqGHz, vdd, ambient, thermalLimit,
                  overheatGrace, batteryWh, workloadGI, speed, tauSec,
                  simState, refs >>
  /\ Edited

SetManualOverride(b) ==
  /\ CanEdit /\ b # manualOverride
  /\ manualOverride' = b
  /\ UNCHANGED << workloadMix, ceffNF, freqGHz, vdd, ambient, thermalLimit,
                  overheatGrace, batteryWh, workloadGI, speed, tauSec,
                  simState, refs >>
  /\ Edited

\* the sliders are disabled unless manualOverride (lines 297-298)
SetFreqGHz(n) ==
  /\ CanEdit /\ manualOverride /\ n # freqGHz
  /\ freqGHz' = n
  /\ UNCHANGED << workloadMix, ceffNF, manualOverride, vdd, ambient, thermalLimit,
                  overheatGrace, batteryWh, workloadGI, speed, tauSec,
                  simState, refs >>
  /\ Edited

SetVdd(n) ==
  /\ CanEdit /\ manualOverride /\ n # vdd
  /\ vdd' = n
  /\ UNCHANGED << workloadMix, ceffNF, manualOverride, freqGHz, ambient, thermalLimit,
                  overheatGrace, batteryWh, workloadGI, speed, tauSec,
                  simState, refs >>
  /\ Edited

SetAmbient(n) ==
  /\ CanEdit /\ n # ambient
  /\ ambient' = n
  /\ UNCHANGED << workloadMix, ceffNF, manualOverride, freqGHz, vdd, thermalLimit,
                  overheatGrace, batteryWh, workloadGI, speed, tauSec,
                  simState, refs >>
  /\ Edited

SetThermalLimit(n) ==
  /\ CanEdit /\ n # thermalLimit
  /\ thermalLimit' = n
  /\ UNCHANGED << workloadMix, ceffNF, manualOverride, freqGHz, vdd, ambient,
                  overheatGrace, batteryWh, workloadGI, speed, tauSec,
                  simState, refs >>
  /\ Edited

\* setOverheatGrace(Math.max(1, Number.isFinite(n) ? n : 1))
SetOverheatGrace(n) ==
  /\ CanEdit /\ Max(MinGraceSec, n) # overheatGrace
  /\ overheatGrace' = Max(MinGraceSec, n)
  /\ UNCHANGED << workloadMix, ceffNF, manualOverride, freqGHz, vdd, ambient,
                  thermalLimit, batteryWh, workloadGI, speed, tauSec,
                  simState, refs >>
  /\ Edited

SetBatteryWh(n) ==
  /\ CanEdit /\ n # batteryWh
  /\ batteryWh' = n
  /\ UNCHANGED << workloadMix, ceffNF, manualOverride, freqGHz, vdd, ambient,
                  thermalLimit, overheatGrace, workloadGI, speed, tauSec,
                  simState, refs >>
  /\ Edited

\* the effect of lines 102-104 follows the render
SetWorkloadGI(n) ==
  /\ CanEdit /\ n # workloadGI
  /\ workloadGI' = n
  /\ remainingGI_ref' = SyncRemaining(TRUE, playing, n, remainingGI_ref)
  /\ remainingGI' = SyncRemaining(TRUE, playing, n, remainingGI)
  /\ UNCHANGED << workloadMix, ceffNF, manualOverride, freqGHz, vdd, ambient,
                  thermalLimit, overheatGrace, batteryWh, speed, tauSec,
                  series, endReason, throttling, T_ref, EWh_ref, t_ref,
                  overheatAccum_ref, slewCooldown_ref, pIndex_ref, f_ref, V_ref >>
  /\ Edited

SetSpeed(n) ==
  /\ CanEdit /\ n # speed
  /\ speed' = n
  /\ UNCHANGED << workloadMix, ceffNF, manualOverride, freqGHz, vdd, ambient,
                  thermalLimit, overheatGrace, batteryWh, workloadGI, tauSec,
                  simState, refs >>
  /\ Edited

SetTauSec(n) ==
  /\ CanEdit /\ n # tauSec
  /\ tauSec' = n
  /\ UNCHANGED << workloadMix, ceffNF, manualOverride, freqGHz, vdd, ambient,
                  thermalLimit, overheatGrace, batteryWh, workloadGI, speed,
                  simState, refs >>
  /\ Edited

-----------------------------------------------------------------------------

Next ==
  \/ TickStart
  \/ SubStep
  \/ TickEnd
  \/ Play
  \/ Pause
  \/ Reset
  \/ \E n \in MixInputs : SetWorkloadMix(n)
  \/ \E n \in CeffInputs : SetCeffNF(n)
  \/ \E b \in BOOLEAN : SetManualOverride(b)
  \/ \E n \in FreqInputs : SetFreqGHz(n)
  \/ \E n \in VddInputs : SetVdd(n)
  \/ \E n \in AmbientInputs : SetAmbient(n)
  \/ \E n \in ThermalLimitInputs : SetThermalLimit(n)
  \/ \E n \in GraceInputs : SetOverheatGrace(n)
  \/ \E n \in BatteryInputs : SetBatteryWh(n)
  \/ \E n \in WorkloadInputs : SetWorkloadGI(n)
  \/ \E n \in SpeedInputs : SetSpeed(n)
  \/ \E n \in TauInputs : SetTauSec(n)

Spec == Init /\ [][Next]_vars

-----------------------------------------------------------------------------
(* Uninterrupted runs: Play, then the interval callback until the run ends *)
(* or the elapsed time passes MaxLongT, with the knobs left alone.         *)

\* bound of the exploration of the uninterrupted runs
MaxLongT == 800000

\* the nominal scenario: the defaults with a fully compute-bound workload
NominalKnobs == [DefaultKnobs EXCEPT !.workloadMix = 100]

\* a workload that outlasts SeriesCap samples
EnduranceKnobs == [DefaultKnobs EXCEPT !.workloadGI = 1900000]

\* a battery that runs down before the workload does
DrainKnobs == [DefaultKnobs EXCEPT !.batteryWh = 10000]

LongKnobs == {NominalKnobs, EnduranceKnobs, DrainKnobs}

\* lines 123-204: the while loop, run to its exit
RECURSIVE WhileLoop(_, _, _)
WhileLoop(w, k, er) ==
  IF LoopGuard(w.vtime, w.localEnd, er) THEN WhileLoop(Iteration(w, k), k, er)
  ELSE w

\* lines 117-214: one whole interval callback on the engine state s
Callback(s, k) ==
  LET w == WhileLoop([ vtime |-> Budget(k.speed), localEnd |-> Null,
                       localThrottling |-> s.throttling, newPoints |-> << >>,
                       refs |-> s.refs, remainingGI |-> s.remainingGI,
                       lastChangeT |-> s.lastChangeT ],
                     k, s.endReason)
  IN  [ refs |-> w.refs,
        remainingGI |-> w.remainingGI, lastChangeT |-> w.lastChangeT,
        series |-> SeriesAfter(s.series, w.newPoints),
        endReason |-> EndAfterTick(w.localEnd, s.endReason),
        throttling |-> w.localThrottling,
        fullTrace |-> s.fullTrace \o w.newPoints ]

\* n callbacks in a row; a callback on a run that has ended changes nothing
RECURSIVE AfterCallbacks(_, _, _)
AfterCallbacks(s, k, n) ==
  IF n = 0 \/ s.endReason # "running" THEN s
  ELSE AfterCallbacks(Callback(s, k), k, n - 1)

\* The exploration also starts from two states deep in these runs, each the
\* state Play and that many callbacks lead to from construction: the nominal
\* run at its end, and the long run after its trace was first trimmed.
NominalTicks == 74
EnduranceTicks == 153

\* and the long run at the callback that leaves its trace at its longest,
\* the one before the first trim
FullTraceTicks == 151

InitLong ==
  \/ \E k \in LongKnobs : InitAt(k, Fresh(k), FALSE)
  \/ InitAt(NominalKnobs,
            AfterCallbacks(Fresh(NominalKnobs), NominalKnobs, NominalTicks), TRUE)
  \/ InitAt(EnduranceKnobs,
            AfterCallbacks(Fresh(EnduranceKnobs), EnduranceKnobs, EnduranceTicks),
            TRUE)
  \/ InitAt(EnduranceKnobs,
            AfterCallbacks(Fresh(EnduranceKnobs), EnduranceKnobs, FullTraceTicks),
            TRUE)

TickStartLong == TickStartUpTo(MaxLongT)

NextLong ==
  \/ Play
  \/ TickStartLong
  \/ SubStep
  \/ TickEnd

SpecLong == InitLong /\ [][NextLong]_vars

\* The interval of lines 113-116 fires every tickMs for as long as playing
\* is true and the run has not ended, and a callback that has started runs
\* its loop to the exit and commits: the engine is never starved.  Play is
\* the user's and gets no fairness.

\* ENABLED <<SubStep>>_vars: an iteration is possible exactly when the while
\* condition holds inside a callback, and it always advances t_ref
SubStepEnabled == pc = "tick" /\ LoopGuard(vtime, localEnd, endReason)

\* WF_vars(SubStep), written out with SubStepEnabled for ENABLED
FairSubStep == []<><<SubStep>>_vars \/ []<>~SubStepEnabled

SpecLongFair ==
  /\ SpecLong
  /\ WF_vars(TickStartLong)
  /\ FairSubStep
  /\ WF_vars(TickEnd)

-----------------------------------------------------------------------------
(* Vocabulary of the properties.                                           *)

\* the step just taken is one iteration of the while loop
SubStepped == pc = "tick" /\ pc' = "tick" /\ t_ref' # t_ref

\* the size h of that iteration
StepSize == t_ref' - t_ref

\* the callback is between two iterations, or past the last one
AfterSubStep == pc = "tick" /\ newPoints # << >>

\* max(1, overheatGrace), the accumulated time at which overheat fires
GraceThreshold == Max(MinGraceSec, overheatGrace)

\* the state resetSim leaves
ResetPerformed ==
  /\ endReason' = "running"
  /\ series' = << >>
  /\ throttling' = FALSE
  /\ t_ref' = 0
  /\ EWh_ref' = 0
  /\ overheatAccum_ref' = 0
  /\ T_ref' = ambient
  /\ remainingGI_ref' = workloadGI
  /\ pIndex_ref' = InitIndex
  /\ slewCooldown_ref' = 0

engine == << remainingGI_ref, remainingGI, T_ref, EWh_ref, t_ref,
             overheatAccum_ref, pIndex_ref, slewCooldown_ref, f_ref, V_ref,
             endReason, series >>

-----------------------------------------------------------------------------
(* C1.  When several termination conditions become true in one sub-step   *)
(* the reason follows the precedence Completed, BatteryDepleted,           *)
(* Overheated: remaining workload 0 gives Completed whatever the battery   *)
(* and the overheat accumulator are, and battery with overheat (workload   *)
(* left) gives BatteryDepleted.                                            *)
C1_CompletedFirst ==
  AfterSubStep =>
    /\ remainingGI_ref <= 0 => localEnd = "completed"
    /\ (remainingGI_ref > 0 /\ EWh_ref >= batteryWh) => localEnd = "battery"

(* C2.  Pausing and later resuming is a pure stop of stepping: neither     *)
(* changes any engine state, the remaining workload in particular.         *)
C2_PauseIsPureStop ==
  [][(Pause \/ (Play /\ endReason = "running")) => UNCHANGED engine]_vars

(* C3.  Every sub-step leaves the remaining workload no larger than it     *)
(* was and never negative: it subtracts IPC x frequency x h and floors     *)
(* the result at 0.                                                        *)
C3_RemainingNonIncreasing ==
  [][SubStepped =>
       /\ remainingGI_ref' <= remainingGI_ref
       /\ remainingGI_ref' >= 0
       /\ remainingGI_ref' =
            Max(0, remainingGI_ref
                     - (((ipc(workloadMix) * f_ref') \div 1000) * StepSize) \div 1000)
    ]_vars

\* a sub-step has floored the remaining workload at 0 after earlier sub-steps
C3_Witness ==
  AfterSubStep /\ remainingGI_ref = 0 /\ t_ref >= 2 * dt /\ localEnd # Null

(* C4.  A termination reason other than Running never changes, neither     *)
(* back to Running nor to another reason, except by resetSim.              *)
C4_TerminalUntilReset ==
  [][endReason # "running" => (endReason' = endReason \/ ResetPerformed)]_vars

\* the interval callback runs after the run has ended
C4_Witness == pc = "tick" /\ endReason \in {"completed", "battery", "overheat"}

(* C5.  After a terminal reason, no tick and no user action other than     *)
(* reset changes the trace, elapsed time, temperature, consumed energy,    *)
(* remaining workload, overheat accumulator or governor index / cooldown.  *)
C5_FrozenAfterTermination ==
  [][(endReason # "running" /\ ~ResetPerformed) =>
       UNCHANGED << series, t_ref, T_ref, EWh_ref, remainingGI_ref,
                    overheatAccum_ref, pIndex_ref, slewCooldown_ref >>]_vars

(* C6.  In automatic mode an index change in a sub-step that begins at     *)
(* time t is followed by no index change in a sub-step that begins before  *)
(* t + slewStepSec, whatever the sub-step sizes are; each change moves     *)
(* the index by one table position.                                        *)
C6_SlewWindow ==
  [][(SubStepped /\ pIndex_ref' # pIndex_ref) =>
       /\ pIndex_ref' \in {pIndex_ref - 1, pIndex_ref + 1}
       /\ lastChangeT >= 0 => t_ref >= lastChangeT + slewStepSec]_vars

(* C7.  In every sub-step with manual override enabled, the frequency and  *)
(* voltage used for performance and power and reported in the sample are   *)
(* clamp(freqGHz, fMin, fMax) and clamp(vdd, vMin, vMax), whatever the     *)
(* temperature, the battery level and the governor index are.              *)
C7_ManualReportsClamped ==
  [][(SubStepped /\ manualOverride) =>
       LET p  == newPoints'[Len(newPoints')]
           cf == clamp(freqGHz, fMin, fMax)
           cv == clamp(vdd, vMin, vMax)
       IN  /\ f_ref' = cf
           /\ V_ref' = cv
           /\ p.f * 10 = cf
           /\ p.V * 10 = cv
           /\ p.perfMIPS = ToFixed(PerfGIPS(workloadMix, cf), 1, 10)
           /\ p.power = ToFixed(Ptot(ceffNF, cv, cf, workloadMix, T_ref), 1000, 1000)
    ]_vars

\* a manual sub-step at or above the thermal limit, away from the table entry
C7_Witness ==
  /\ AfterSubStep /\ manualOverride
  /\ T_ref >= thermalLimit
  /\ f_ref # PState(pIndex_ref).f

(* C8.  Sub-steps with manual override enabled leave the governor index    *)
(* and the slew cooldown unchanged, and so does switching override on or   *)
(* off: automatic control resumes from the index and cooldown held when    *)
(* override was switched on.                                               *)
C8_ManualFreezesGovernor ==
  [][((SubStepped /\ manualOverride) \/ manualOverride' # manualOverride) =>
       UNCHANGED << pIndex_ref, slewCooldown_ref >>]_vars

\* a manual sub-step taken while a cooldown is pending and the index has moved
C8_Witness ==
  /\ AfterSubStep /\ manualOverride
  /\ slewCooldown_ref > 0
  /\ pIndex_ref # InitIndex

(* C9.  The run ends with BatteryDepleted in the first sub-step after      *)
(* which consumedWh >= batteryWh, unless the workload completes in that    *)
(* sub-step, and never ends with BatteryDepleted while consumedWh is       *)
(* below batteryWh.                                                        *)
C9_BatteryTermination ==
  AfterSubStep =>
    /\ (EWh_ref >= batteryWh /\ remainingGI_ref > 0) => localEnd = "battery"
    /\ localEnd = "battery" => EWh_ref >= batteryWh

(* C10.  The overheat accumulator grows by h in a sub-step whose updated   *)
(* temperature is above thermalLimit + 5 and otherwise shrinks by 2h, not  *)
(* below 0; the run ends with Overheated in the first sub-step after which *)
(* the accumulator is >= max(1, overheatGrace) and in no other, so never   *)
(* with less than 1 s accumulated.                                         *)
C10_OverheatAccumulator ==
  [][SubStepped =>
       /\ overheatAccum_ref' =
            IF T_ref' > thermalLimit + OVERHEAT_MARGIN
            THEN overheatAccum_ref + StepSize
            ELSE Max(0, overheatAccum_ref - 2 * StepSize)
       /\ (overheatAccum_ref' >= GraceThreshold) <=> (localEnd' = "overheat")
       /\ localEnd' = "overheat" =>
            /\ overheatAccum_ref' >= MinGraceSec
            /\ ~LoopGuard(vtime', localEnd', endReason')
            /\ EndAfterTick(localEnd', endReason') = "overheat"
    ]_vars

\* the accumulator has just reached the threshold and overheat is recorded
C10_Witness ==
  /\ AfterSubStep
  /\ localEnd = "overheat"
  /\ overheatAccum_ref = GraceThreshold

(* C11.  The consumed energy is 0 right after resetSim, is never negative, *)
(* and after every sub-step is at least its value before: it grows by      *)
(* P x h / 3600 with P = Pdyn + Pleak >= 0 (ceff > 0).                     *)
C11_EnergyMonotone ==
  /\ [](EWh_ref >= 0 /\ ceffNF > 0)
  /\ [][/\ (Reset \/ (Play /\ endReason # "running")) => EWh_ref' = 0
        /\ SubStepped =>
             LET P == Ptot(ceffNF, V_ref', f_ref', workloadMix, T_ref)
             IN  /\ P = Pdyn(ceffNF, V_ref', f_ref', workloadMix) + Pleak(V_ref', T_ref)
                 /\ P >= 0
                 /\ EWh_ref' >= EWh_ref
                 /\ EWh_ref' = EWh_ref + RoundDiv(P * StepSize, 3600)
     ]_vars

\* energy has been consumed over several sub-steps of one callback
C11_Witness ==
  AfterSubStep /\ Len(newPoints) >= 2 /\ EWh_ref > 0 /\ EWh_ref < batteryWh

(* C12.  In automatic mode a sub-step that begins with the temperature at  *)
(* or above thermalLimit (equal included) sets the throttling indicator    *)
(* for that sub-step and wants an index of at least the current one plus   *)
(* one, capped at the last entry; so when the cooldown is 0 and the index  *)
(* is not the last, the index goes up by exactly one in that sub-step,     *)
(* whatever the workload target and the battery level are.                 *)
C12_ThermalThrottle ==
  [][(SubStepped /\ ~manualOverride /\ T_ref >= thermalLimit) =>
       /\ localThrottling'
       /\ Desired(pIndex_ref, T_ref, thermalLimit, targetPIndex(workloadMix),
                  EWh_ref, batteryWh) >= Min(pIndex_ref + 1, NStates - 1)
       /\ (CooldownTick(FALSE, slewCooldown_ref, StepSize) = 0
             /\ pIndex_ref < NStates - 1) => pIndex_ref' = pIndex_ref + 1
    ]_vars

\* the first sub-step of a run began exactly at the thermal limit, above the
\* workload target, and moved the index up by one
C12_Witness ==
  /\ AfterSubStep /\ ~manualOverride
  /\ tickT0 = 0 /\ Len(newPoints) = 1
  /\ thermalLimit = runKnobs.ambient
  /\ targetPIndex(workloadMix) < InitIndex
  /\ pIndex_ref = InitIndex + 1
  /\ localThrottling

(* C13.  After resetSim, from any reachable state, the engine state is the *)
(* freshly seeded one for the knobs then in force: temperature = ambient,  *)
(* consumed energy 0, elapsed time 0, overheat accumulator 0, remaining    *)
(* workload = workloadGI, governor index 2 with the f and V of table entry *)
(* 2, cooldown 0, throttling false, trace empty, reason Running.           *)
C13_ResetSeeds ==
  [][(Reset \/ (Play /\ endReason # "running")) =>
       /\ T_ref' = ambient
       /\ EWh_ref' = 0
       /\ t_ref' = 0
       /\ overheatAccum_ref' = 0
       /\ remainingGI_ref' = workloadGI
       /\ remainingGI' = workloadGI
       /\ pIndex_ref' = 2
       /\ f_ref' = pstates[3].f
       /\ V_ref' = pstates[3].V
       /\ slewCooldown_ref' = 0
       /\ throttling' = FALSE
       /\ series' = << >>
       /\ endReason' = "running"
       /\ UNCHANGED knobs
    ]_vars

\* a reset has seeded the temperature from an edited ambient
C13_Witness ==
  /\ pc = "idle" /\ ~playing
  /\ ambient # DefaultKnobs.ambient /\ T_ref = ambient
  /\ t_ref = 0 /\ EWh_ref = 0 /\ series = << >>
  /\ pIndex_ref = InitIndex /\ slewCooldown_ref = 0
  /\ endReason = "running"

(* C14.  The retained trace is a contiguous suffix of the full sequence of *)
(* samples produced since the last reset, in production order and with     *)
(* strictly increasing elapsedSec: trimming drops samples from the front    *)
(* only, appending adds the new samples at the end only, the sample of the *)
(* terminating sub-step included.                                          *)
C14_TraceSuffix ==
  LET n == Len(series)
      m == Len(fullTrace)
  IN  /\ n <= m
      /\ series = SubSeq(fullTrace, m - n + 1, m)
      /\ \A i \in 1..(n - 1) : series[i].t < series[i + 1].t
      /\ (pc = "idle" /\ m > 0) =>
            /\ n > 0
            /\ series[n].t = ToFixed(t_ref, 1000, 100)

\* a run that ended after its trace had been trimmed
C14_Witness ==
  /\ pc = "idle"
  /\ Len(series) > SeriesKeep
  /\ Len(series) < Len(fullTrace)
  /\ endReason = "completed"
  /\ series[Len(series)].t = ToFixed(t_ref, 1000, 100)

\* the knobs as they would be had the run kept those it started with
SnapshotKnobs ==
  [Knobs EXCEPT !.workloadMix = runKnobs.workloadMix,
                !.ambient = runKnobs.ambient,
                !.thermalLimit = runKnobs.thermalLimit,
                !.overheatGrace = runKnobs.overheatGrace,
                !.batteryWh = runKnobs.batteryWh,
                !.workloadGI = runKnobs.workloadGI,
                !.tauSec = runKnobs.tauSec]

\* the step changes one of workload size, ambient, thermal limit, battery
\* capacity, overheat grace, workload mix, tau
ConfigEdited ==
  << workloadGI, ambient, thermalLimit, batteryWh, overheatGrace, workloadMix,
     tauSec >>' # << workloadGI, ambient, thermalLimit, batteryWh, overheatGrace,
                     workloadMix, tauSec >>

\* the sub-step just taken is the one Iteration computes with knobs k
SubStepUses(k) ==
  LET w == Iteration(Loop, k)
  IN  /\ << T_ref', EWh_ref', t_ref', overheatAccum_ref', remainingGI_ref',
            slewCooldown_ref', pIndex_ref', f_ref', V_ref' >>
          = << w.refs.T, w.refs.E, w.refs.t, w.refs.acc, w.refs.rem,
               w.refs.cd, w.refs.idx, w.refs.f, w.refs.V >>
      /\ newPoints' = w.newPoints
      /\ localEnd' = w.localEnd
      /\ localThrottling' = w.localThrottling

C16_NominalNeverOverheats ==
  (Knobs = NominalKnobs /\ Rth = 8) =>
    /\ endReason \in {"running", "completed", "battery"}
    /\ localEnd \in {Null, "running", "completed", "battery"}
    /\ overheatAccum_ref < GraceThreshold

\* the nominal run has ended
C16_Witness ==
  /\ Knobs = NominalKnobs
  /\ pc = "idle"
  /\ endReason = "completed"
  /\ remainingGI_ref = 0 /\ EWh_ref < batteryWh

(* C17.  In automatic mode a sub-step that begins with the temperature     *)
(* strictly between thermalLimit - 2 and thermalLimit does not decrease    *)
(* the governor index, whatever the workload target and the battery level  *)
(* are.                                                                    *)
C17_HysteresisHolds ==
  [][(SubStepped /\ ~manualOverride
        /\ T_ref > thermalLimit - HYST /\ T_ref < thermalLimit) =>
       pIndex_ref' >= pIndex_ref]_vars

\* a sub-step inside the band has kept, with no cooldown pending and a charged
\* battery, an index above the workload target
C17_Witness ==
  /\ AfterSubStep /\ ~manualOverride
  /\ T_ref > thermalLimit - HYST + 500 /\ T_ref < thermalLimit - 500
  /\ slewCooldown_ref = 0
  /\ pIndex_ref > targetPIndex(workloadMix)
  /\ BattPct(EWh_ref, batteryWh) >= BattFloorPct * 1000

(* C18.  In automatic mode, while the battery percentage (from the energy  *)
(* consumed so far) is below 20, the desired index is at least 3 whatever  *)
(* the workload target is: the index never moves from an entry >= 3 to an  *)
(* entry < 3, and an index below 3 never decreases and, with the cooldown  *)
(* at 0, increases by one.                                                 *)
C18_BatteryFloor ==
  [][(SubStepped /\ ~manualOverride
        /\ BattPct(EWh_ref, batteryWh) < 20 * 1000) =>
       /\ Desired(pIndex_ref, T_ref, thermalLimit, targetPIndex(workloadMix),
                  EWh_ref, batteryWh) >= 3
       /\ pIndex_ref >= 3 => pIndex_ref' >= 3
       /\ pIndex_ref < 3 =>
            /\ pIndex_ref' >= pIndex_ref
            /\ CooldownTick(FALSE, slewCooldown_ref, StepSize) = 0 =>
                 pIndex_ref' = pIndex_ref + 1
    ]_vars

\* below the hysteresis band and with a target below 3, the index was raised
\* to 3 and is kept there with no cooldown pending
C18_Witness ==
  /\ AfterSubStep /\ ~manualOverride
  /\ BattPct(EWh_ref, batteryWh) < BattFloorPct * 1000
  /\ EWh_ref < batteryWh
  /\ T_ref < thermalLimit - HYST
  /\ targetPIndex(workloadMix) < BattFloorIndex
  /\ pIndex_ref = BattFloorIndex
  /\ slewCooldown_ref = 0

(* C19.  Each tick of a running simulation advances by sub-steps of size   *)
(* min(dt, remaining budget) with dt = 0.25 s.  If no termination          *)
(* condition fires during the tick, the sizes sum exactly to               *)
(* 0.1 s x clamp(speed, 1, 50) and the elapsed time grows by that amount;  *)
(* if one fires in a sub-step, that sub-step is fully applied and          *)
(* recorded and no further sub-step of the tick runs.                      *)
C19_TickBudget ==
  [][/\ SubStepped =>
          /\ StepSize = Min(250, vtime)
          /\ vtime' = vtime - StepSize
          /\ Len(newPoints') = Len(newPoints) + 1
          /\ newPoints'[Len(newPoints')].t = ToFixed(t_ref', 1000, 100)
     /\ (pc = "tick" /\ pc' = "idle" /\ endReason = "running") =>
          /\ localEnd = Null =>
               /\ vtime = 0
               /\ t_ref - tickT0 = 100 * clamp(speed, 1, 50)
          /\ localEnd # Null =>
               /\ endReason' = localEnd
               /\ series'[Len(series')].t = ToFixed(t_ref, 1000, 100)
     /\ (pc = "tick" /\ localEnd # Null) => ~SubStepped
    ]_vars

\* a termination condition has fired with part of the tick's budget left, in a
\* tick that follows full ones
C19_Witness ==
  /\ pc = "tick"
  /\ tickT0 > 0
  /\ localEnd \in {"completed", "battery", "overheat"}
  /\ vtime > 0
  /\ newPoints # << >>

(* C20.  In every reachable state the governor index is an integer in     *)
(* [0, N - 1] (N = 7 table entries) and 0 <= cooldown <= slewStepSec; in    *)
(* any automatic sub-step in which the cooldown is still positive after    *)
(* its decrement by h the index is unchanged, even when the desired index  *)
(* differs from the current one.                                           *)
C20_IndexAndCooldown ==
  /\ [](/\ NStates = 7
        /\ pIndex_ref \in 0..(NStates - 1)
        /\ slewCooldown_ref >= 0
        /\ slewCooldown_ref <= slewStepSec)
  /\ [][(SubStepped /\ ~manualOverride /\ slewCooldown_ref - StepSize > 0) =>
          pIndex_ref' = pIndex_ref]_vars

\* above the thermal limit the index waits, below the last entry, for a
\* cooldown that is still running
C20_Witness ==
  /\ AfterSubStep /\ ~manualOverride
  /\ slewCooldown_ref > 0 /\ slewCooldown_ref < slewStepSec
  /\ thermalLimit < DefaultKnobs.ambient /\ T_ref >= thermalLimit
  /\ pIndex_ref < NStates - 1

-----------------------------------------------------------------------------
(* C21: the retained trace is bounded whatever the run length and the      *)
(* playback speed: series never holds more than SeriesCap entries plus the *)
(* samples of one callback, and one callback never yields more than the    *)
(* 20 samples of the largest budget (maxSpeed ticks of tickMs, in steps of *)
(* dt).                                                                    *)

\* the most samples one callback can push: 5 s of budget in steps of 0.25 s
MaxTickSamples == Budget(maxSpeed) \div dt

C21_TraceBounded ==
  /\ Len(newPoints) <= MaxTickSamples
  /\ Len(series) <= SeriesCap + MaxTickSamples

\* the bound is met: a callback of 20 samples was appended to a trace of
\* exactly SeriesCap entries, in a run that is still going
C21_Witness ==
  /\ pc = "idle"
  /\ endReason = "running"
  /\ Len(series) = SeriesCap + MaxTickSamples
  /\ Len(fullTrace) = Len(series)

-----------------------------------------------------------------------------
(* C22: in every sub-step executed in automatic mode the active frequency  *)
(* and voltage, which the sub-step used for performance and power and      *)
(* reported in its sample, are the table entry at the governor's index,    *)
(* also in the sub-steps that follow switching manual override off.        *)

C22_AutoUsesTable ==
  [][ SubStepped /\ ~manualOverride =>
        LET p == newPoints'[Len(newPoints')]
            e == PState(pIndex_ref')
        IN  /\ f_ref' = e.f
            /\ V_ref' = e.V
            /\ p.f * 10 = e.f
            /\ p.V * 10 = e.V
            /\ p.perfMIPS = ToFixed(PerfGIPS(workloadMix, e.f), 1, 10)
            /\ p.power = ToFixed(Ptot(ceffNF, e.V, e.f, workloadMix, T_ref),
                                 1000, 1000) ]_vars

-----------------------------------------------------------------------------
(* C23: a run that keeps being ticked, with no Pause and no Reset, reaches *)
(* a terminal reason; every sub-step of size h > 0 removes a strictly      *)
(* positive amount of work (IPC >= IPCmin, f >= fMin) and adds a strictly  *)
(* positive amount of energy, for a workload size, a battery capacity and  *)
(* an effective capacitance that are positive.                             *)

C23_RunTerminates ==
  /\ (playing /\ endReason = "running") ~> (endReason # "running")
  /\ [](workloadGI > 0 /\ batteryWh > 0 /\ ceffNF > 0)
  /\ [][SubStepped =>
          /\ StepSize > 0
          /\ ipc(workloadMix) >= IPCmin /\ f_ref' >= fMin
          /\ remainingGI_ref > 0
          /\ remainingGI_ref' < remainingGI_ref
          /\ EWh_ref' > EWh_ref ]_vars

\* a run that was ticked until its battery ran out, with work left
C23_Witness ==
  /\ playing /\ pc = "idle"
  /\ endReason = "battery"
  /\ remainingGI_ref > 0
  /\ t_ref > 0

-----------------------------------------------------------------------------
(* C24: in automatic mode, in a sub-step that begins with the temperature  *)
(* at or below thermalLimit - HYST and the battery at or above 20 %, the   *)
(* governor index moves exactly one table position toward the target index *)
(* round((1 - mix) * (N - 1)) if the cooldown has expired and the index is *)
(* not at the target, and does not move otherwise: every accepted change   *)
(* takes one off the distance to the target, so the target is reached      *)
(* after that many changes, and an index at the target stays there.        *)

\* the number of table positions between two indices
Dist(a, b) == IF a >= b THEN a - b ELSE b - a

\* temperature and battery leave the governor to the workload target
Unconstrained ==
  /\ ~manualOverride
  /\ T_ref <= thermalLimit - HYST
  /\ BattPct(EWh_ref, batteryWh) >= BattFloorPct * 1000

C24_ConvergesToTarget ==
  [][ SubStepped /\ Unconstrained =>
        LET target  == RoundDiv((100 - workloadMix) * (NStates - 1), 100)
            expired == Max(0, slewCooldown_ref - StepSize) = 0
            d       == Dist(pIndex_ref, target)
        IN  /\ target \in 0..(NStates - 1)
            /\ (expired /\ d > 0) =>
                  /\ Dist(pIndex_ref', pIndex_ref) = 1
                  /\ Dist(pIndex_ref', target) = d - 1
            /\ (~expired \/ d = 0) => pIndex_ref' = pIndex_ref ]_vars

\* the index has walked the four positions from its seed to the last table
\* entry and rests there with the cooldown expired
C24_Witness ==
  /\ AfterSubStep /\ Unconstrained
  /\ targetPIndex(workloadMix) = NStates - 1
  /\ pIndex_ref = NStates - 1
  /\ Dist(InitIndex, pIndex_ref) = 4
  /\ slewCooldown_ref = 0

====
